---- MODULE Spec2Model ----
(***************************************************************************)
(* ceych: function-level memoization over a pluggable cache backend.       *)
(* The model follows lib/memoize.js (the wrapped function: isReady gate,   *)
(* key derivation, backend get, computation, backend set), lib/utils.js    *)
(* and lib/hash.js (cache keys) and lib/ceych.js (invalidate, disableCache,*)
(* enableCache).  The backend (a Catbox client) is the environment: it     *)
(* answers get/set/drop with a value or an error and expires entries.      *)
(***************************************************************************)
EXTENDS Integers, Sequences, FiniteSets, TLC

VARIABLES ready, store, calls, inv, fnCalls, engine

vars == <<ready, store, calls, inv, fnCalls, engine>>

-----------------------------------------------------------------------------
(* Bounds *)

\* cap on the number of invocations of the underlying computation
MaxFnCalls == 3

-----------------------------------------------------------------------------
(* JavaScript values, as far as JSON.stringify tells them apart *)

JsNum(n) == [t |-> "number", v |-> n]
JsStr(s) == [t |-> "string", v |-> s]
JsNull == [t |-> "null", v |-> "null"]
JsUndefined == [t |-> "undefined", v |-> "undefined"]
\* a function given as an argument, such as a trailing callback
JsFunction == [t |-> "function", v |-> "function"]
\* an object that refers to itself: new Circular()
JsCircular == [t |-> "circular", v |-> "circular"]

\* the computation being wrapped, and func.toString()
Wrappable == "wrappable"
toString(func) == <<"function ", func, "() { [body] }">>

\* JSON.stringify of one array element: undefined and functions become null
\* inside arrays
JsonValue(v) ==
  CASE v.t = "number" -> <<v.v>>
    [] v.t = "string" -> <<"\"", v.v, "\"">>
    [] OTHER -> <<"null">>

RECURSIVE JsonElems(_)
JsonElems(args) ==
  IF args = <<>> THEN <<>>
  ELSE IF Len(args) = 1 THEN JsonValue(args[1])
  ELSE JsonValue(args[1]) \o <<",">> \o JsonElems(Tail(args))

\* a text that tells only how many arguments there are
JSONstringify_length(args) ==
  <<"[">> \o [i \in 1..Len(args) |-> "_"] \o <<"]">>

\* JSON.stringify(args) of an argument array
JSONstringify(args) == <<"[">> \o JsonElems(args) \o <<"]">>

\* a serializer that never throws
stringifyThrows_never(args) == FALSE

\* JSON.stringify(args) throws 'Converting circular structure to JSON'
stringifyThrows(args) == \E i \in 1..Len(args) : args[i].t = "circular"

\* hash.create: SHA-256 hex digest, taken to be collision free
hash_create(string) == [sha256 |-> string]

\* `ceych_${packageVersion}`
Segment == "ceych_<packageVersion>"

\* a key that leaves the suffix out
createKey_noSuffix(func, args, suffix) ==
  hash_create(toString(func) \o JSONstringify(args))

\* a key that also takes in when it is derived
createKey_stamped(func, args, suffix) ==
  LET keyString == toString(func) \o JSONstringify(args)
                     \o <<IF fnCalls = 0 THEN "t0" ELSE "t1">>
  IN  hash_create(IF Len(suffix) > 0 THEN keyString \o suffix ELSE keyString)

createKey(func, args, suffix) ==
  LET keyString == toString(func) \o JSONstringify(args)
  IN  hash_create(IF Len(suffix) > 0 THEN keyString \o suffix ELSE keyString)

createCacheKey(fn, args, suffix) ==
  [id |-> createKey(fn, args, suffix), segment |-> Segment]

\* createKey and createCacheKey of lib/utils.js, which invalidate uses
utils_createKey(func, args, suffix) ==
  LET keyString == toString(func) \o JSONstringify(args)
  IN  hash_create(IF Len(suffix) > 0 THEN keyString \o suffix ELSE keyString)

utils_createCacheKey(fn, args, suffix) ==
  [id |-> utils_createKey(fn, args, suffix), segment |-> Segment]

-----------------------------------------------------------------------------
(* Arguments of wrap and options of the engine, lib/ceych.js *)

\* what wrap and the constructor are handed: undefined, a number, a string
\* or a function
ArgUndefined == [t |-> "undefined", n |-> 0, s |-> <<>>]
ArgNumber(n) == [t |-> "number", n |-> n, s |-> <<>>]
ArgString(s) == [t |-> "string", n |-> 0, s |-> s]
ArgFunction == [t |-> "function", n |-> 0, s |-> <<>>]

\* !x
Falsy(x) ==
  \/ x.t = "undefined"
  \/ x.t = "number" /\ x.n = 0
  \/ x.t = "string" /\ x.s = <<>>

\* x || y
Or(x, y) == IF Falsy(x) THEN y ELSE x

Throw(message) == [ok |-> FALSE, opts |-> [ttl |-> 0, suffix |-> <<>>],
                   err |-> message]

\* whatever is given is taken for a function to wrap
getWrapOpts_unchecked(func, ttl, suffix) ==
  [ok |-> TRUE, opts |-> [ttl |-> ttl.n, suffix |-> suffix.s], err |-> ""]

\* getWrapOpts(func, ttl, suffix): the cacheOpts, or the error thrown
getWrapOpts(func, ttl, suffix) ==
  IF Falsy(func) THEN Throw("Can only wrap a function, received nothing")
  ELSE IF func.t # "function"
    THEN Throw("Can only wrap a function, received [func]")
  ELSE IF ttl.t # "number"
    THEN Throw("Incorrect wrap opts received, ttl must be a number")
  ELSE IF suffix.t # "string"
    THEN Throw("Incorrect wrap opts received, suffix must be a string")
  ELSE [ok |-> TRUE, opts |-> [ttl |-> ttl.n, suffix |-> suffix.s], err |-> ""]

\* wrap(func, ttl, suffix) of an engine with this.defaultTTL = defaultTTL
wrap(func, ttl, suffix, defaultTTL) ==
  getWrapOpts(func, Or(ttl, defaultTTL), suffix)

\* x <= 0: undefined compares as NaN and is not <= 0, '' compares as 0
LeqZero(x) ==
  \/ x.t = "number" /\ x.n <= 0
  \/ x.t = "string" /\ x.s = <<>>

\* whatever defaultTTL is given is accepted
validateClientOpts_unchecked(hasDefaultTTL, defaultTTL) ==
  [ok |-> TRUE, err |-> "",
   defaultTTL |-> IF hasDefaultTTL THEN defaultTTL ELSE ArgNumber(30)]

\* validateClientOpts: opts.defaultTTL is 30 when the options have no
\* property defaultTTL, and a defaultTTL <= 0 throws
validateClientOpts(hasDefaultTTL, defaultTTL) ==
  LET ttl == IF hasDefaultTTL THEN defaultTTL ELSE ArgNumber(30) IN
  IF LeqZero(ttl)
    THEN [ok |-> FALSE, defaultTTL |-> ttl,
          err |-> "Default TTL cannot be less than or equal to zero"]
    ELSE [ok |-> TRUE, defaultTTL |-> ttl, err |-> ""]

-----------------------------------------------------------------------------
(* Inputs *)

\* suffixes, as character sequences: '' and 'x'
NoSuffix == <<>>
Suffixes == {NoSuffix, <<"x">>}

\* cacheOpts of the wrapped functions in use: wrap(f) and wrap(f, 5, 'x')
DefaultWrapped == [ttl |-> 30, suffix |-> NoSuffix]
Wrapped == {DefaultWrapped, [ttl |-> 5, suffix |-> <<"x">>]}

\* argument lists of the calls: f('hello') and f('hello', 'bonjour')
ArgsA == <<JsStr("hello")>>
ArgsB == <<JsStr("hello"), JsStr("bonjour")>>
ArgLists == {ArgsA, ArgsB}

\* f('hello', callback)
ArgsCallback == <<JsStr("hello"), JsFunction>>

\* args.pop() in getFunctionCallback: the arguments without the last one
pop(args) == SubSeq(args, 1, Len(args) - 1)

\* f(new Circular()), and the argument lists of the wrapped calls
ArgsCircular == <<JsCircular>>
CallArgs == ArgLists \cup {ArgsCircular}

\* what the computation resolves with
Results == {JsNum("1"), JsNull}

GetError == "GET Error!"
SetError == "SET Error!"
FnError == "Function Error!"
KeyError == "Failed to create cache key from arguments"

\* outcomes of one invocation of the computation
FnOutcomes ==
  {[ok |-> TRUE, v |-> r, e |-> ""] : r \in Results}
    \cup {[ok |-> FALSE, v |-> JsUndefined, e |-> FnError]}

Keys == {createCacheKey(Wrappable, a, s) : a \in ArgLists, s \in Suffixes}

NoKey == [id |-> hash_create(<<>>), segment |-> ""]

\* the concurrent tasks that call wrapped functions
Calls == {1}

-----------------------------------------------------------------------------
(* State *)

\* a task that is not inside a wrapped call.  opts, args and key are the
\* call's own; readyAtCall, got, gotItem, fnOk, fnVal and setOk record what
\* the backend and the computation answered; gets, fns, sets, fnArgs, setKey,
\* setVal and setTtl record what the call asked of them; hits, misses,
\* errors, readT and writeT what it sent to the stats client.
IdleCall ==
  [pc |-> "idle", opts |-> DefaultWrapped, args |-> <<>>, key |-> NoKey,
   kind |-> "none", val |-> JsUndefined, err |-> "",
   readyAtCall |-> TRUE, got |-> "none", gotItem |-> JsUndefined,
   fnOk |-> "none", fnVal |-> JsUndefined, setOk |-> "none",
   gets |-> 0, fns |-> 0, sets |-> 0, fnArgs |-> <<>>,
   setKey |-> NoKey, setVal |-> JsUndefined, setTtl |-> 0,
   hits |-> 0, misses |-> 0, errors |-> 0, readT |-> 0, writeT |-> 0]

\* no invalidate under way.  wrapSuffix is the suffix of the wrapped function
\* whose entry the caller means; suffix is the one invalidate derives; stale
\* are the tasks whose call had missed on the key and was computing or
\* storing when the drop settled.
IdleInv == [pc |-> "idle", isFunc |-> TRUE, args |-> <<>>, suffix |-> NoSuffix,
            wrapSuffix |-> NoSuffix, key |-> NoKey, ok |-> FALSE,
            stale |-> {}]

\* what wrap was last asked for and what it gave
NotWrapped == [kind |-> "none", func |-> ArgUndefined, ttl |-> ArgUndefined,
               suffix |-> ArgUndefined, opts |-> DefaultWrapped, err |-> ""]

\* what enableCache last saw and did: isReady(), whether it called start and
\* whether that start succeeded
NotEnabled == [isReady |-> TRUE, start |-> FALSE, ok |-> FALSE]

\* new Ceych(opts): validateClientOpts throws (kind "error", nothing else
\* done) or cacheClient.start() is called and the engine holds
\* this.defaultTTL and this.stats; given is what opts said of defaultTTL,
\* start what became of the start ("called" where that is seen through
\* ready only); nothing wrapped and neither disableCache
\* nor enableCache called so far
NewEngine(hasDefaultTTL, defaultTTL, statsClient) ==
  LET opts == validateClientOpts(hasDefaultTTL, defaultTTL) IN
  [kind |-> IF opts.ok THEN "engine" ELSE "error", err |-> opts.err,
   given |-> [has |-> hasDefaultTTL, defaultTTL |-> defaultTTL],
   start |-> IF opts.ok THEN "called" ELSE "none",
   defaultTTL |-> opts.defaultTTL,
   sink |-> statsClient,
   wrapped |-> NotWrapped, lastOp |-> "none", enable |-> NotEnabled]

\* the stats client handed to the wrapped functions, cacheOpts.statsClient:
\* "none" (the no-op client stands in), "counts" (a client that takes every
\* increment and timing), and clients whose timing or increment throws
Sinks == {"none", "counts", "timingThrows", "incrementThrows"}
SinkError == "Stats Error!"

\* stats.timing(...) throws, stats.increment(...) throws
TimingThrows == engine.sink = "timingThrows"
IncrementThrows == engine.sink = "incrementThrows"

\* the backend holds an entry under k
HasEntry(k) == k \in DOMAIN store

\* what cacheClient.get(k) resolves with: the entry, or nothing
GetResult(k) ==
  IF HasEntry(k) THEN [found |-> TRUE, item |-> store[k].item]
  ELSE [found |-> FALSE, item |-> JsUndefined]

\* the backend after set(k, value, ttl); args and suffix remember the writer
StoreSet(k, value, ttl, args, suffix) ==
  [j \in DOMAIN store \cup {k} |->
     IF j = k THEN [item |-> value, ttl |-> ttl, args |-> args, suffix |-> suffix]
     ELSE store[j]]

\* the backend after drop(k), and after the entry under k has expired
StoreDrop(k) == [j \in DOMAIN store \ {k} |-> store[j]]

Init ==
  /\ ready \in BOOLEAN
  /\ store = [k \in {} |-> [item |-> JsNull, ttl |-> 0, args |-> <<>>,
                            suffix |-> NoSuffix]]
  /\ calls = [c \in Calls |-> IdleCall]
  /\ inv = IdleInv
  /\ fnCalls = 0
  /\ engine = NewEngine(FALSE, ArgUndefined, "counts")

-----------------------------------------------------------------------------
(* The wrapped function, lib/memoize.js *)

\* the gate left out: the lookup is made whatever the backend reports
NotReady_never(isReady) == FALSE

\* if (!cacheClient.isReady())
NotReady(isReady) == ~isReady

\* return fn(...args), with the cache not ready
Bypass(w, a, isReady) ==
  [IdleCall EXCEPT !.pc = "bypass", !.opts = w, !.args = a,
                   !.readyAtCall = isReady, !.fns = 1, !.fnArgs = a]

\* createCacheKey(fn, args, suffix) and cacheClient.get(cacheKey)
Lookup(w, a, isReady) ==
  [IdleCall EXCEPT !.pc = "get", !.opts = w, !.args = a,
                   !.readyAtCall = isReady,
                   !.key = createCacheKey(Wrappable, a, w.suffix),
                   !.gets = 1]

\* createCacheKey throws, outside the try: the call rejects at once
KeyFailure(w, a, isReady) ==
  [IdleCall EXCEPT !.pc = "done", !.opts = w, !.args = a,
                   !.readyAtCall = isReady,
                   !.kind = "error", !.err = KeyError]

\* the call up to its first await: the isReady gate, the key and the get
Call(c, w, a) ==
  /\ calls[c].pc \in {"idle", "done"}
  /\ IF NotReady(ready)
       THEN /\ fnCalls < MaxFnCalls
            /\ fnCalls' = fnCalls + 1
            /\ calls' = [calls EXCEPT ![c] = Bypass(w, a, ready)]
       ELSE /\ fnCalls' = fnCalls
            /\ calls' = [calls EXCEPT ![c] =
                 IF stringifyThrows(a) THEN KeyFailure(w, a, ready)
                 ELSE Lookup(w, a, ready)]
  /\ UNCHANGED <<ready, store, inv, engine>>

\* an entry holding null taken for no entry: if (reply && reply.item)
Truthy_item(reply) == reply.found /\ reply.item # JsNull

\* if (reply)
Truthy(reply) == reply.found

\* the error replaced by one of the engine's own
Rethrow_wrapped(call, e) ==
  [call EXCEPT !.pc = "done", !.kind = "error", !.err = "Cache failure",
               !.errors = @ + 1]

\* a catch that looks up once more after the first failure
Rethrow_retry(call, e) ==
  IF call.gets < 2
    THEN [call EXCEPT !.pc = "get", !.gets = @ + 1, !.errors = @ + 1]
    ELSE [call EXCEPT !.pc = "done", !.kind = "error", !.err = e,
                      !.errors = @ + 1]

\* the catch around get, computation and set: count the error and rethrow;
\* when that increment throws, what it throws takes the place of the error
Rethrow(call, e) ==
  [call EXCEPT !.pc = "done", !.kind = "error",
               !.err = IF IncrementThrows THEN SinkError ELSE e,
               !.errors = @ + 1]

\* the entry returned in place of its item: return reply
Hit_reply(call, reply) ==
  [call EXCEPT !.pc = "done", !.kind = "value", !.val = JsUndefined,
               !.readT = @ + 1, !.hits = @ + 1]

\* a hit counted as a miss
Hit_asMiss(call, reply) ==
  [call EXCEPT !.pc = "done", !.kind = "value", !.val = reply.item,
               !.readT = @ + 1, !.misses = @ + 1]

\* a hit: return reply.item
Hit(call, reply) ==
  [call EXCEPT !.pc = "done", !.kind = "value", !.val = reply.item,
               !.readT = @ + 1, !.hits = @ + 1]

\* a miss coalesced with a call already computing for the same key: the
\* computation is not invoked a second time
Miss_coalesced(call) ==
  IF \E d \in DOMAIN calls :
       calls[d].pc \in {"fn", "set"} /\ calls[d].key = call.key
    THEN [call EXCEPT !.pc = "done", !.kind = "value", !.readT = @ + 1,
                      !.misses = @ + 1]
    ELSE [call EXCEPT !.pc = "fn", !.readT = @ + 1, !.misses = @ + 1,
                      !.fns = @ + 1, !.fnArgs = call.args]

\* a miss that sends no increment
Miss_uncounted(call) ==
  [call EXCEPT !.pc = "fn", !.readT = @ + 1,
               !.fns = @ + 1, !.fnArgs = call.args]

\* a miss: await fn(...args)
Miss(call) ==
  [call EXCEPT !.pc = "fn", !.readT = @ + 1, !.misses = @ + 1,
               !.fns = @ + 1, !.fnArgs = call.args]

\* the wrapped function after get resolved: the read timing, then the hit
\* or the miss with its increment; a throw of the stats client inside the
\* try is caught like any other error
AfterGet(call, reply) ==
  IF TimingThrows
    THEN Rethrow([call EXCEPT !.readT = @ + 1], SinkError)
  ELSE IF Truthy(reply)
    THEN IF IncrementThrows
           THEN Rethrow([call EXCEPT !.readT = @ + 1, !.hits = @ + 1], SinkError)
           ELSE Hit(call, reply)
  ELSE IF IncrementThrows
    THEN Rethrow([call EXCEPT !.readT = @ + 1, !.misses = @ + 1], SinkError)
    ELSE Miss(call)

\* cacheClient.get settles, with the entry or nothing (ok) or with an error
GetReply(c, ok) ==
  LET call == calls[c]
      reply == GetResult(call.key)
      seen == [call EXCEPT !.got = IF ~ok THEN "error"
                                   ELSE IF reply.found THEN "entry" ELSE "empty",
                           !.gotItem = IF ok THEN reply.item ELSE JsUndefined]
      next == IF ~ok THEN Rethrow(seen, GetError)
              ELSE AfterGet(seen, reply)
  IN
  /\ call.pc = "get"
  /\ calls' = [calls EXCEPT ![c] = next]
  /\ fnCalls' = fnCalls + (next.fns - call.fns)
  /\ fnCalls' <= MaxFnCalls
  /\ UNCHANGED <<ready, store, inv, engine>>

\* the ttl handed on in seconds
Expiry_seconds(ttl) == ttl

\* the expiry handed to cacheClient.set
Expiry(ttl) == ttl * 1000

\* a null result returned without being stored
IssueSet_skipNull(call, results) ==
  IF results = JsNull
    THEN [call EXCEPT !.pc = "done", !.kind = "value", !.val = results]
    ELSE [call EXCEPT !.pc = "set", !.sets = @ + 1, !.setKey = call.key,
                      !.setVal = results, !.setTtl = Expiry(call.opts.ttl)]

\* the result lost on the way to the backend: null is stored in its place
IssueSet_null(call, results) ==
  [call EXCEPT !.pc = "set", !.sets = @ + 1, !.setKey = call.key,
               !.setVal = JsNull, !.setTtl = Expiry(call.opts.ttl)]

\* the set issued under the key of the function without its suffix
IssueSet_noSuffix(call, results) ==
  [call EXCEPT !.pc = "set", !.sets = @ + 1,
               !.setKey = createCacheKey(Wrappable, call.args, NoSuffix),
               !.setVal = results, !.setTtl = Expiry(call.opts.ttl)]

\* setInCache(cacheKey, results, ttl): cacheClient.set(key, value, ttl * 1000)
IssueSet(call, results) ==
  [call EXCEPT !.pc = "set", !.sets = @ + 1, !.setKey = call.key,
               !.setVal = results, !.setTtl = Expiry(call.opts.ttl)]

\* the computation settles with the cache not ready: its outcome is the call's
BypassReply(c, r) ==
  LET call == calls[c] IN
  /\ call.pc = "bypass"
  /\ calls' = [calls EXCEPT ![c] =
       [call EXCEPT !.pc = "done", !.fnOk = IF r.ok THEN "ok" ELSE "error",
                    !.fnVal = r.v,
                    !.kind = IF r.ok THEN "value" ELSE "error",
                    !.val = r.v, !.err = r.e]]
  /\ UNCHANGED <<ready, store, inv, fnCalls, engine>>

\* a failed computation cached as null
FnReply_cacheErrors(c, r) ==
  LET call == calls[c]
      seen == [call EXCEPT !.fnOk = IF r.ok THEN "ok" ELSE "error",
                           !.fnVal = r.v]
  IN
  /\ call.pc = "fn"
  /\ calls' = [calls EXCEPT ![c] =
       IF r.ok THEN IssueSet(seen, r.v) ELSE IssueSet(seen, JsNull)]
  /\ UNCHANGED <<ready, store, inv, fnCalls, engine>>

\* the computation settles after a miss; on success setInCache issues the set
FnReply(c, r) ==
  LET call == calls[c]
      seen == [call EXCEPT !.fnOk = IF r.ok THEN "ok" ELSE "error",
                           !.fnVal = r.v]
  IN
  /\ call.pc = "fn"
  /\ calls' = [calls EXCEPT ![c] =
       IF r.ok THEN IssueSet(seen, r.v) ELSE Rethrow(seen, r.e)]
  /\ UNCHANGED <<ready, store, inv, fnCalls, engine>>

\* the value stored and the caller never answered
SetDone_lost(call) ==
  [call EXCEPT !.pc = "lost", !.writeT = @ + 1]

\* setInCache after the set resolved: the timing, then return value
SetDone(call) ==
  [call EXCEPT !.pc = "done", !.kind = "value", !.val = call.setVal,
               !.writeT = @ + 1]

\* the set error replaced by one of the engine's own
SetFailed_generic(call, e) ==
  Rethrow([call EXCEPT !.errors = @ + 1], "Failed to write to cache")

\* the set error swallowed and the computed value returned
SetFailed_swallow(call, e) ==
  [call EXCEPT !.pc = "done", !.kind = "value", !.val = call.setVal,
               !.errors = @ + 1]

\* the write time sent for a set that failed as well
SetFailed_timed(call, e) ==
  Rethrow([call EXCEPT !.errors = @ + 1, !.writeT = @ + 1], e)

\* setInCache after the set rejected: count the error and rethrow; the
\* rethrown error then passes the catch of the wrapped function
SetFailed(call, e) ==
  Rethrow([call EXCEPT !.errors = @ + 1], e)

\* cacheClient.set settles; a throw of the write timing is caught in
\* setInCache like a failed set, with the entry already written
SetReply(c, ok) ==
  LET call == calls[c]
      seen == [call EXCEPT !.setOk = IF ok THEN "ok" ELSE "error"]
  IN
  /\ call.pc = "set"
  /\ store' = IF ok THEN StoreSet(call.setKey, call.setVal, call.setTtl,
                                  call.args, call.opts.suffix)
              ELSE store
  /\ calls' = [calls EXCEPT ![c] =
       IF ~ok THEN SetFailed(seen, SetError)
       ELSE IF TimingThrows
         THEN SetFailed([seen EXCEPT !.writeT = @ + 1], SinkError)
       ELSE SetDone(seen)]
  /\ UNCHANGED <<ready, inv, fnCalls, engine>>

-----
(* The engine, lib/ceych.js *)

\* validateInvalidateOpts: a function stands for {func, suffix: ''}
validateInvalidateOpts(isFunc, suffix) == IF isFunc THEN NoSuffix ELSE suffix

\* only the first argument after the function taken: [args[1]]
slice1_first(arguments) ==
  IF Len(arguments) > 1 THEN <<arguments[2]>> ELSE <<>>

\* args.slice(1): the arguments after funcOrOpts
slice1(arguments) == Tail(arguments)

\* invalidate(funcOrOpts, ...a), for the entry of the function wrapped with
\* suffix s: funcOrOpts is the function itself (isFunc) or {func, suffix: s};
\* derives the key and issues the drop
Invalidate(isFunc, s, a) ==
  /\ inv.pc \in {"idle", "done"}
  /\ inv' = [pc |-> "drop", isFunc |-> isFunc, args |-> a,
             suffix |-> validateInvalidateOpts(isFunc, s),
             wrapSuffix |-> s,
             key |-> utils_createCacheKey(Wrappable,
                       slice1(<<Wrappable>> \o a),
                       validateInvalidateOpts(isFunc, s)),
             ok |-> FALSE, stale |-> {}]
  /\ UNCHANGED <<ready, store, calls, fnCalls, engine>>

\* cacheClient.drop settles
DropReply(ok) ==
  /\ inv.pc = "drop"
  /\ inv' = [inv EXCEPT !.pc = "done", !.ok = ok,
                        !.stale = {c \in DOMAIN calls :
                                     /\ calls[c].pc \in {"fn", "set"}
                                     /\ calls[c].key = inv.key}]
  /\ store' = IF ok THEN StoreDrop(inv.key) ELSE store
  /\ UNCHANGED <<ready, calls, fnCalls, engine>>

\* disableCache: cache.stop()
DisableCache ==
  /\ ready
  /\ ready' = FALSE
  /\ UNCHANGED <<store, calls, inv, fnCalls, engine>>

\* start called whatever the backend reports
startIssued_always(isReady) == TRUE

\* if (!this.cache.isReady()) return this.cache.start()
startIssued(isReady) == ~isReady

\* enableCache: cache.start() only when the backend is not ready
EnableCache ==
  /\ startIssued(ready)
  /\ ready' = TRUE
  /\ UNCHANGED <<store, calls, inv, fnCalls, engine>>

\* the backend drops an entry whose expiry has passed
Expire(k) ==
  /\ HasEntry(k)
  /\ store' = StoreDrop(k)
  /\ UNCHANGED <<ready, calls, inv, fnCalls, engine>>

-----------------------------------------------------------------------------

Next ==
  \/ \E c \in Calls, w \in Wrapped, a \in CallArgs : Call(c, w, a)
  \/ \E c \in Calls, ok \in BOOLEAN : GetReply(c, ok)
  \/ \E c \in Calls, r \in FnOutcomes : BypassReply(c, r)
  \/ \E c \in Calls, r \in FnOutcomes : FnReply(c, r)
  \/ \E c \in Calls, ok \in BOOLEAN : SetReply(c, ok)
  \/ \E isFunc \in BOOLEAN, s \in Suffixes, a \in ArgLists : Invalidate(isFunc, s, a)
  \/ \E ok \in BOOLEAN : DropReply(ok)
  \/ DisableCache
  \/ EnableCache
  \/ \E k \in Keys : Expire(k)

Spec == Init /\ [][Next]_vars

-----------------------------------------------------------------------------
(* Sequential calls against a healthy backend: the backend stays ready,    *)
(* every get, set and computation succeeds, nothing expires and nothing is *)
(* invalidated.                                                            *)

InitSeq == Init /\ ready

NextSeq ==
  \/ \E c \in Calls, w \in Wrapped, a \in ArgLists :
       /\ \A d \in Calls : calls[d].pc \in {"idle", "done"}
       /\ Call(c, w, a)
  \/ \E c \in Calls : GetReply(c, TRUE)
  \/ \E c \in Calls, r \in {o \in FnOutcomes : o.ok} : FnReply(c, r)
  \/ \E c \in Calls : SetReply(c, TRUE)

SpecSeq == InitSeq /\ [][NextSeq]_vars

-----------------------------------------------------------------------------
(* The engine's interface: functions are made by wrap and then called, with  *)
(* one argument list and a backend that answers every get and set.           *)

\* wrap(func, ttl, suffix): a wrapped function over the cacheOpts, or a throw
Wrap(func, ttl, suffix) ==
  LET r == wrap(func, ttl, suffix, engine.defaultTTL) IN
  /\ engine.kind = "engine"
  /\ engine' = [engine EXCEPT !.wrapped =
       [kind |-> IF r.ok THEN "function" ELSE "error", func |-> func,
        ttl |-> ttl, suffix |-> suffix, opts |-> r.opts, err |-> r.err]]
  /\ UNCHANGED <<ready, store, calls, inv, fnCalls>>

\* disableCache that leaves the backend running
disableCache_noStop ==
  /\ engine.kind = "engine"
  /\ engine' = [engine EXCEPT !.lastOp = "disableCache"]
  /\ UNCHANGED <<ready, store, calls, inv, fnCalls>>

\* disableCache(), whatever the backend reports: cache.stop()
disableCache ==
  /\ engine.kind = "engine"
  /\ engine' = [engine EXCEPT !.lastOp = "disableCache"]
  /\ ready' = FALSE
  /\ UNCHANGED <<store, calls, inv, fnCalls>>

\* enableCache(), whatever the backend reports: start is called only when
\* isReady() is false, and the backend is ready once that start succeeded (ok)
enableCache(ok) ==
  LET start == startIssued(ready) IN
  /\ engine.kind = "engine"
  /\ engine' = [engine EXCEPT !.lastOp = "enableCache",
                              !.enable = [isReady |-> ready, start |-> start,
                                          ok |-> start /\ ok]]
  /\ ready' = IF start /\ ok THEN TRUE ELSE ready
  /\ UNCHANGED <<store, calls, inv, fnCalls>>

\* options given to the constructor: none, and {defaultTTL: d} with d one
\* of 10, 0, -5 and undefined
ClientOpts ==
  {<<FALSE, ArgUndefined>>, <<TRUE, ArgNumber(10)>>, <<TRUE, ArgNumber(0)>>,
   <<TRUE, ArgNumber(-5)>>, <<TRUE, ArgUndefined>>}

\* a constructor that waits for start and throws when it fails
Started_awaited(e, ok) ==
  [e EXCEPT !.start = IF e.kind # "engine" THEN "none"
                      ELSE IF ok THEN "resolved" ELSE "rejected",
            !.kind = IF e.kind = "engine" /\ ~ok THEN "error" ELSE e.kind,
            !.err = IF e.kind = "engine" /\ ~ok THEN "start failed" ELSE e.err]

\* the engine once the start called by its constructor has settled
Started(e, ok) ==
  [e EXCEPT !.start = IF e.kind # "engine" THEN "none"
                      ELSE IF ok THEN "resolved" ELSE "rejected"]

\* wrap() and wrap(1)
NotFunctions == {ArgUndefined, ArgNumber(1)}

\* arguments given to wrap
WrapTtls == {ArgUndefined, ArgNumber(5)}
WrapSuffixes == {ArgUndefined, ArgString(<<>>), ArgString(<<"x">>)}

\* wrap(wrappable, 'x'): a string as the second argument
SuffixAsTtl == ArgString(<<"x">>)

\* the computation resolves with 1 or fails
EngineOutcomes == {r \in FnOutcomes : r.v # JsNull}

InitEngine ==
  /\ store = [k \in {} |-> [item |-> JsNull, ttl |-> 0, args |-> <<>>,
                            suffix |-> NoSuffix]]
  /\ calls = [c \in Calls |-> IdleCall]
  /\ inv = IdleInv
  /\ fnCalls = 0
  /\ \E o \in ClientOpts, ok \in BOOLEAN :
       /\ engine = Started(NewEngine(o[1], o[2], "counts"), ok)
       /\ ready = (engine.kind = "engine" /\ ok)

NextEngine ==
  \/ \E ttl \in WrapTtls, suffix \in WrapSuffixes : Wrap(ArgFunction, ttl, suffix)
  \/ \E func \in NotFunctions : Wrap(func, ArgUndefined, ArgUndefined)
  \/ Wrap(ArgFunction, SuffixAsTtl, ArgUndefined)
  \/ \E c \in Calls :
       /\ engine.wrapped.kind = "function"
       /\ Call(c, engine.wrapped.opts, ArgsA)
  \/ \E c \in Calls : GetReply(c, TRUE)
  \/ \E c \in Calls, r \in EngineOutcomes : BypassReply(c, r)
  \/ \E c \in Calls, r \in EngineOutcomes : FnReply(c, r)
  \/ \E c \in Calls : SetReply(c, TRUE)
  \/ disableCache
  \/ \E ok \in BOOLEAN : enableCache(ok)

SpecEngine == InitEngine /\ [][NextEngine]_vars

-----------------------------------------------------------------------------
(* Two tasks calling the same wrapped function with the same arguments.  The *)
(* tasks interleave at the awaits of the wrapped function: get, computation *)
(* and set.                                                                  *)

Racers == {1, 2}

InitRace ==
  /\ ready = TRUE
  /\ store = [k \in {} |-> [item |-> JsNull, ttl |-> 0, args |-> <<>>,
                            suffix |-> NoSuffix]]
  /\ calls = [c \in Racers |-> IdleCall]
  /\ inv = IdleInv
  /\ fnCalls = 0
  /\ \E statsClient \in {"none", "counts"} :
       engine = NewEngine(FALSE, ArgUndefined, statsClient)

NextRace ==
  \/ \E c \in Racers : Call(c, DefaultWrapped, ArgsA)
  \/ \E c \in Racers, ok \in BOOLEAN : GetReply(c, ok)
  \/ \E c \in Racers, r \in FnOutcomes : FnReply(c, r)
  \/ \E c \in Racers, ok \in BOOLEAN : SetReply(c, ok)

SpecRace == InitRace /\ [][NextRace]_vars

-----------------------------------------------------------------------------
(* Calls of one wrapped function under each kind of stats client, with and  *)
(* without a trailing callback.  The backend answers or fails every get and *)
(* set, and entries expire.                                                 *)

InitStats ==
  /\ ready \in BOOLEAN
  /\ store = [k \in {} |-> [item |-> JsNull, ttl |-> 0, args |-> <<>>,
                            suffix |-> NoSuffix]]
  /\ calls = [c \in Calls |-> IdleCall]
  /\ inv = IdleInv
  /\ fnCalls = 0
  /\ \E statsClient \in Sinks :
       engine = NewEngine(FALSE, ArgUndefined, statsClient)

NextStats ==
  \/ \E c \in Calls, a \in ArgLists \cup {ArgsCallback} :
       Call(c, DefaultWrapped, a)
  \/ \E c \in Calls, ok \in BOOLEAN : GetReply(c, ok)
  \/ \E c \in Calls, r \in FnOutcomes : BypassReply(c, r)
  \/ \E c \in Calls, r \in FnOutcomes : FnReply(c, r)
  \/ \E c \in Calls, ok \in BOOLEAN : SetReply(c, ok)
  \/ \E k \in Keys : Expire(k)

SpecStats == InitStats /\ [][NextStats]_vars

-----------------------------------------------------------------------------
(* Calls of one wrapped function with argument lists that differ in their   *)
(* values, their order and their length, against a backend that answers     *)
(* every get and set and keeps what it is given.                            *)

\* f(1, 2, 3), f('anotherarg'), f(1, 2), f(2, 1), f(null) and f(undefined)
KeyArgs ==
  {<<JsNum("1"), JsNum("2"), JsNum("3")>>, <<JsStr("anotherarg")>>,
   <<JsNum("1"), JsNum("2")>>, <<JsNum("2"), JsNum("1")>>,
   <<JsNull>>, <<JsUndefined>>}

InitKeys ==
  /\ ready = TRUE
  /\ store = [k \in {} |-> [item |-> JsNull, ttl |-> 0, args |-> <<>>,
                            suffix |-> NoSuffix]]
  /\ calls = [c \in Calls |-> IdleCall]
  /\ inv = IdleInv
  /\ fnCalls = 0
  /\ engine = NewEngine(FALSE, ArgUndefined, "counts")

NextKeys ==
  \/ \E c \in Calls, a \in KeyArgs : Call(c, DefaultWrapped, a)
  \/ \E c \in Calls : GetReply(c, TRUE)
  \/ \E c \in Calls, r \in {o \in FnOutcomes : o.ok} : FnReply(c, r)
  \/ \E c \in Calls : SetReply(c, TRUE)

SpecKeys == InitKeys /\ [][NextKeys]_vars

-----------------------------------------------------------------------------
(* Calls whose backend and computation answer in the end: every get, every  *)
(* set and every invocation of the computation that is pending eventually   *)
(* settles, with a value or with an error.  The cache is disabled and       *)
(* enabled in between.                                                      *)

NextLive ==
  \/ \E c \in Calls, a \in CallArgs :
       /\ fnCalls < MaxFnCalls
       /\ Call(c, DefaultWrapped, a)
  \/ \E c \in Calls, ok \in BOOLEAN : GetReply(c, ok)
  \/ \E c \in Calls, r \in FnOutcomes : BypassReply(c, r)
  \/ \E c \in Calls, r \in FnOutcomes : FnReply(c, r)
  \/ \E c \in Calls, ok \in BOOLEAN : SetReply(c, ok)
  \/ DisableCache
  \/ EnableCache

\* the backend and the computation respond
Responsive ==
  \A c \in Calls :
    /\ WF_vars(\E ok \in BOOLEAN : GetReply(c, ok))
    /\ WF_vars(\E r \in FnOutcomes : BypassReply(c, r))
    /\ WF_vars(\E r \in FnOutcomes : FnReply(c, r))
    /\ WF_vars(\E ok \in BOOLEAN : SetReply(c, ok))

SpecLive == Init /\ [][NextLive]_vars /\ Responsive

-----------------------------------------------------------------------------
(* Functions wrapped with a missing, zero, negative and positive ttl by     *)
(* engines of every kind of defaultTTL, and called against a backend that   *)
(* answers every get and set.                                               *)

\* wrap(f, undefined, 'x'), wrap(f, 0, 'x'), wrap(f, -5, 'x'), wrap(f, 5, 'x')
TtlSamples == {ArgUndefined, ArgNumber(0), ArgNumber(-5), ArgNumber(5)}

NextTtl ==
  \/ \E ttl \in TtlSamples : Wrap(ArgFunction, ttl, ArgString(<<"x">>))
  \/ \E c \in Calls, a \in ArgLists :
       /\ engine.wrapped.kind = "function"
       /\ Call(c, engine.wrapped.opts, a)
  \/ \E c \in Calls : GetReply(c, TRUE)
  \/ \E c \in Calls, r \in EngineOutcomes : BypassReply(c, r)
  \/ \E c \in Calls, r \in EngineOutcomes : FnReply(c, r)
  \/ \E c \in Calls : SetReply(c, TRUE)

SpecTtl == InitEngine /\ [][NextTtl]_vars

-----------------------------------------------------------------------------
(* Two tasks that each call the wrapped function once, while entries are    *)
(* invalidated.  The backend answers every get, set and drop.               *)

InitInv ==
  /\ ready = TRUE
  /\ store = [k \in {} |-> [item |-> JsNull, ttl |-> 0, args |-> <<>>,
                            suffix |-> NoSuffix]]
  /\ calls = [c \in Racers |-> IdleCall]
  /\ inv = IdleInv
  /\ fnCalls = 0
  /\ engine = NewEngine(FALSE, ArgUndefined, "counts")

NextInv ==
  \/ \E c \in Racers, a \in ArgLists :
       /\ calls[c].pc = "idle"
       /\ Call(c, DefaultWrapped, a)
  \/ \E c \in Racers : GetReply(c, TRUE)
  \/ \E c \in Racers, r \in EngineOutcomes : FnReply(c, r)
  \/ \E c \in Racers : SetReply(c, TRUE)
  \/ \E a \in ArgLists : Invalidate(TRUE, NoSuffix, a)
  \/ DropReply(TRUE)

SpecInv == InitInv /\ [][NextInv]_vars

-----------------------------------------------------------------------------
(* Properties *)

Done(c) == calls[c].pc = "done"

\* C1 (SpecSeq): idempotent hit.  With the backend ready and no expiry or
\* invalidation, the computation runs once per stored key in total (every
\* invocation belongs to an entry now stored or to the one call still on
\* its way to store it), and every completed call returns the value that is
\* stored under its key.
C1_IdempotentHit ==
  /\ fnCalls = Cardinality(DOMAIN store)
                 + Cardinality({c \in Calls : calls[c].pc \in {"fn", "set"}})
  /\ \A c \in Calls : Done(c) =>
       /\ calls[c].kind = "value"
       /\ HasEntry(calls[c].key)
       /\ calls[c].val = store[calls[c].key].item

C1_Witness ==
  \E c \in Calls :
    /\ Done(c) /\ calls[c].hits = 1 /\ calls[c].fns = 0
    /\ HasEntry(calls[c].key) /\ fnCalls >= 1

\* C2: hit path.  A call made with the backend ready whose get returned an
\* entry returns that entry's item, without invoking the computation and
\* without issuing a set.
C2_HitPath ==
  \A c \in Calls : (calls[c].readyAtCall /\ calls[c].got = "entry") =>
    /\ Done(c) /\ calls[c].kind = "value"
    /\ calls[c].val = calls[c].gotItem
    /\ calls[c].fns = 0 /\ calls[c].sets = 0

C2_Witness ==
  \E c \in Calls : Done(c) /\ calls[c].got = "entry" /\ calls[c].gets = 1

\* C3: miss path.  A call made with the backend ready whose get returned no
\* entry invokes the computation once with the call's own arguments; when
\* the computation succeeds it issues one set with the derived key, the
\* computation's result and expiry ttl * 1000, and when that set succeeds
\* it returns the same result.
C3_MissPath ==
  \A c \in Calls : (calls[c].readyAtCall /\ calls[c].got = "empty") =>
    /\ calls[c].fns = 1 /\ calls[c].fnArgs = calls[c].args
    /\ calls[c].fnOk = "ok" =>
         /\ calls[c].sets = 1
         /\ calls[c].setKey =
              createCacheKey(Wrappable, calls[c].args, calls[c].opts.suffix)
         /\ calls[c].setVal = calls[c].fnVal
         /\ calls[c].setTtl = calls[c].opts.ttl * 1000
         /\ calls[c].setOk = "ok" =>
              /\ Done(c) /\ calls[c].kind = "value"
              /\ calls[c].val = calls[c].fnVal

C3_Witness ==
  \E c \in Calls :
    /\ Done(c) /\ calls[c].got = "empty" /\ calls[c].setOk = "ok"
    /\ calls[c].opts.ttl = 5 /\ calls[c].setTtl = 5000

\* C4: disabled cache bypass.  A call made while the backend reports
\* not-ready invokes the computation with the call's arguments, never
\* issues a get or a set, and ends with the computation's own outcome.
C4_Bypass ==
  \A c \in Calls : (calls[c].pc # "idle" /\ ~calls[c].readyAtCall) =>
    /\ calls[c].gets = 0 /\ calls[c].sets = 0
    /\ calls[c].fns = 1 /\ calls[c].fnArgs = calls[c].args
    /\ Done(c) =>
         IF calls[c].fnOk = "ok"
           THEN calls[c].kind = "value" /\ calls[c].val = calls[c].fnVal
           ELSE /\ calls[c].fnOk = "error"
                /\ calls[c].kind = "error" /\ calls[c].err = FnError

C4_Witness ==
  \E c \in Calls :
    /\ Done(c) /\ ~calls[c].readyAtCall
    /\ calls[c].kind = "value" /\ calls[c].fns = 1

\* C5: fail-closed lookup.  When the get fails the caller receives that
\* error, the computation is not invoked, no set is issued and the get is
\* not issued again.
C5_FailClosedLookup ==
  \A c \in Calls : calls[c].got = "error" =>
    /\ Done(c) /\ calls[c].kind = "error" /\ calls[c].err = GetError
    /\ calls[c].fns = 0 /\ calls[c].sets = 0 /\ calls[c].gets = 1

C5_Witness ==
  \E c \in Calls : Done(c) /\ calls[c].got = "error"

\* C6: computation failure.  When the computation fails after a miss the
\* caller receives exactly that error, no set is issued, and the backend
\* holds no entry under the call's key, so the next call misses again.
C6_ComputationFailure ==
  \A c \in Calls : (calls[c].got = "empty" /\ calls[c].fnOk = "error") =>
    /\ Done(c) /\ calls[c].kind = "error" /\ calls[c].err = FnError
    /\ calls[c].sets = 0
    /\ ~HasEntry(calls[c].key)

C6_Witness ==
  \E c \in Calls :
    Done(c) /\ calls[c].got = "empty" /\ calls[c].fnOk = "error"

\* C7: write failure is surfaced.  When the computation succeeded and the
\* set fails, the call fails with the backend's set error.
C7_WriteFailureSurfaced ==
  \A c \in Calls : (calls[c].fnOk = "ok" /\ calls[c].setOk = "error") =>
    Done(c) /\ calls[c].kind = "error" /\ calls[c].err = SetError

C7_Witness ==
  \E c \in Calls :
    Done(c) /\ calls[c].setOk = "error" /\ calls[c].err = SetError

\* C8 as stated: when the computation succeeded and the set fails, the call
\* still returns the computed result.
C8_Original ==
  \A c \in Calls : (calls[c].fnOk = "ok" /\ calls[c].setOk = "error") =>
    calls[c].kind = "value" /\ calls[c].val = calls[c].fnVal

\* C8, amended: when the computation succeeded and the set fails, the call
\* does not return the computed result: it ends without a value.
C8_FailedWriteFailsCall ==
  \A c \in Calls : (calls[c].fnOk = "ok" /\ calls[c].setOk = "error") =>
    Done(c) /\ calls[c].kind # "value" /\ calls[c].val = JsUndefined

C8_Witness ==
  \E c \in Calls :
    /\ Done(c) /\ calls[c].fnOk = "ok" /\ calls[c].setOk = "error"
    /\ calls[c].fnVal = JsNum("1")

\* a step in which the drop issued by invalidate settles
DropSettles == inv.pc = "drop" /\ inv'.pc = "done"

\* C9 as stated: once invalidate(computation, ...A) has completed, no entry
\* that a wrapped call with arguments A stored is left, so that the next
\* wrapped call with A misses and invokes the computation again.
C9_Original ==
  [][(DropSettles /\ inv'.ok /\ inv.isFunc) =>
       \A k \in DOMAIN store' : store'[k].args # inv.args]_vars

\* C10: invalidation leaves other keys alone.  The drop issued by
\* invalidate(f, ...A) removes at most the entry under the key derived from
\* (f, A, suffix): every other entry, and every entry stored by a call with
\* another argument list, is kept as it is; issuing the drop changes nothing.
C10_InvalidateFrame ==
  [][/\ DropSettles =>
          \A k \in DOMAIN store :
            \/ k = createCacheKey(Wrappable, inv.args, inv.suffix)
                 /\ store[k].args = inv.args
            \/ k \in DOMAIN store' /\ store'[k] = store[k]
     /\ (inv.pc # "drop" /\ inv'.pc = "drop") => store' = store]_vars

C10_Witness ==
  /\ inv.pc = "done" /\ inv.ok
  /\ ~HasEntry(createCacheKey(Wrappable, inv.args, inv.suffix))
  /\ \E c \in Calls :
       /\ Done(c) /\ calls[c].got = "entry" /\ calls[c].args # inv.args
       /\ HasEntry(calls[c].key)

\* C11 as stated: the drop that invalidate issues for the entry of the
\* function wrapped with suffix s and called with arguments A goes to the
\* key (id and segment) which that wrapped call reads and writes, also when
\* s is not empty and invalidate is given the original function.
C11_Original ==
  inv.pc \in {"drop", "done"} =>
    inv.key = createCacheKey(Wrappable, inv.args, inv.wrapSuffix)

\* a call whose arguments cannot be serialized
Unserializable(c) == calls[c].pc # "idle" /\ calls[c].args = ArgsCircular

\* C12 as stated: a wrapped call whose arguments cannot be serialized fails
\* with the key error and invokes neither get, set nor the computation.
C12_Original ==
  \A c \in Calls : Unserializable(c) =>
    /\ calls[c].gets = 0 /\ calls[c].sets = 0 /\ calls[c].fns = 0
    /\ Done(c) /\ calls[c].kind = "error" /\ calls[c].err = KeyError

\* C12, amended: a wrapped call made while the backend reports ready whose
\* arguments cannot be serialized fails with the key error and invokes
\* neither get, set nor the computation.
C12_KeyFailureFirst ==
  \A c \in Calls : (Unserializable(c) /\ calls[c].readyAtCall) =>
    /\ calls[c].gets = 0 /\ calls[c].sets = 0 /\ calls[c].fns = 0
    /\ Done(c) /\ calls[c].kind = "error" /\ calls[c].err = KeyError

C12_Witness ==
  \E c \in Calls :
    /\ Unserializable(c) /\ calls[c].readyAtCall
    /\ calls[c].kind = "error" /\ fnCalls >= 1

\* C13: null-value caching.  A computation that succeeds with null after a
\* miss has a set issued with null, and a lookup that finds an entry holding
\* null is a hit: the call returns null, counts a hit and no miss, and
\* invokes neither the computation nor a set.
C13_NullCached ==
  \A c \in Calls :
    /\ (calls[c].got = "empty" /\ calls[c].fnOk = "ok"
          /\ calls[c].fnVal = JsNull) =>
         calls[c].sets = 1 /\ calls[c].setVal = JsNull
    /\ (calls[c].got = "entry" /\ calls[c].gotItem = JsNull) =>
         /\ Done(c) /\ calls[c].kind = "value" /\ calls[c].val = JsNull
         /\ calls[c].hits = 1 /\ calls[c].misses = 0
         /\ calls[c].fns = 0 /\ calls[c].sets = 0

C13_Witness ==
  \E c \in Calls :
    /\ Done(c) /\ calls[c].got = "entry" /\ calls[c].gotItem = JsNull
    /\ HasEntry(calls[c].key) /\ store[calls[c].key].item = JsNull
    /\ fnCalls = 1

\* C14 as stated: a function returned from wrap(f, ttl) issues every set
\* with expiry ttl * 1000, and wrap(f) without ttl and suffix returns a
\* function that writes with the engine's default TTL, 30 seconds when none
\* was configured.
C14_Original ==
  LET w == engine.wrapped IN
  /\ (w.kind = "function" /\ ~Falsy(w.ttl)) => w.opts.ttl = w.ttl.n
  /\ (/\ w.kind # "none" /\ w.func = ArgFunction
      /\ Falsy(w.ttl) /\ w.suffix = ArgUndefined) =>
       /\ w.kind = "function"
       /\ w.opts.ttl = engine.defaultTTL.n
       /\ engine.defaultTTL.n = 30 \/ engine.defaultTTL.n = 10
  /\ \A c \in Calls : calls[c].sets = 1 =>
       calls[c].setTtl = calls[c].opts.ttl * 1000

\* both tasks are in calls with the same key and both lookups found nothing
BothMissed ==
  /\ calls[1].key = calls[2].key
  /\ calls[1].got = "empty" /\ calls[2].got = "empty"

\* C15 (SpecRace): no stampede protection.  When the lookups of two calls
\* with the same arguments both found nothing, each call invokes the
\* computation, and each call whose computation succeeded issues a set on
\* the key; every set that succeeds replaces whatever is stored under the
\* key, so that the entry left is the one of the later set.
C15_NoStampedeProtection ==
  [][/\ BothMissed' =>
          \A c \in Racers :
            /\ calls'[c].fns = 1
            /\ calls'[c].fnOk = "ok" =>
                 calls'[c].sets = 1 /\ calls'[c].setKey = calls'[c].key
     /\ \A c \in Racers :
          (calls[c].pc = "set" /\ calls'[c].setOk = "ok") =>
            /\ HasEntry(calls[c].setKey)'
            /\ store'[calls[c].setKey].item = calls[c].setVal]_vars

\* both lookups were made before either set: two computations in all, two
\* sets with different values, and the entry is the one of the later set
C15_Witness ==
  /\ BothMissed /\ fnCalls = 2
  /\ Done(1) /\ calls[1].setOk = "ok" /\ calls[1].setVal = JsNum("1")
  /\ Done(2) /\ calls[2].setOk = "ok" /\ calls[2].setVal = JsNull
  /\ store[calls[2].key].item = JsNull

\* a step in which task c enters the wrapped function
CallStarts(c) ==
  calls[c].pc \in {"idle", "done"} /\ calls'[c].pc \in {"get", "bypass"}

\* C16 (SpecEngine): the disableCache/enableCache toggle.  A wrapped call
\* made after disableCache, and before any enableCache, bypasses caching: it
\* invokes the computation and issues neither get nor set.  A wrapped call
\* made after enableCache has started the backend again performs the
\* lookup, and when it misses and the computation succeeds it issues a set.
C16_Toggle ==
  [][\A c \in Calls :
       /\ (CallStarts(c) /\ engine.lastOp = "disableCache") =>
            /\ calls'[c].pc = "bypass" /\ ~calls'[c].readyAtCall
            /\ calls'[c].fns = 1 /\ calls'[c].gets = 0
       /\ (calls'[c].pc # "idle" /\ ~calls'[c].readyAtCall) =>
            calls'[c].gets = 0 /\ calls'[c].sets = 0 /\ calls'[c].fns = 1
       /\ (CallStarts(c) /\ engine.lastOp = "enableCache"
            /\ engine.enable.ok) =>
            /\ calls'[c].pc = "get" /\ calls'[c].readyAtCall
            /\ calls'[c].gets = 1 /\ calls'[c].fns = 0
       /\ (calls'[c].readyAtCall /\ calls'[c].got = "empty"
            /\ calls'[c].fnOk = "ok") => calls'[c].sets = 1]_vars

\* disableCache, a call that bypassed, enableCache starting the backend,
\* and then a call that looked up, computed and stored
C16_Witness ==
  /\ engine.lastOp = "enableCache" /\ engine.enable.ok
  /\ fnCalls = 2 /\ Cardinality(DOMAIN store) = 1
  /\ \E c \in Calls :
       /\ Done(c) /\ calls[c].readyAtCall /\ calls[c].got = "empty"
       /\ calls[c].setOk = "ok" /\ HasEntry(calls[c].key)

\* a step of enableCache (a repeated call that finds and does the same as
\* the one before changes nothing at all)
EnableStep ==
  /\ engine'.lastOp = "enableCache"
  /\ engine.lastOp # "enableCache" \/ engine'.enable # engine.enable

\* C17 (SpecEngine): enableCache is idempotent.  enableCache calls start
\* if and only if the backend reports not-ready when it is called; called
\* on a ready backend it calls nothing and leaves the backend, the entries,
\* the calls in flight and the wrapped functions as they are.
C17_EnableIdempotent ==
  [][EnableStep =>
       /\ engine'.enable.isReady = ready
       /\ engine'.enable.start <=> ~ready
       /\ ready => /\ ready'
                   /\ UNCHANGED <<store, calls, inv, fnCalls>>
                   /\ engine'.wrapped = engine.wrapped
                   /\ engine'.defaultTTL = engine.defaultTTL]_vars

C17_Witness ==
  /\ engine.lastOp = "enableCache" /\ ready
  /\ engine.enable.isReady /\ ~engine.enable.start
  /\ engine.wrapped.kind = "function"

\* call c missed, computed and stored, and call d then found the entry
MissThenHit(c, d) ==
  /\ Done(c) /\ calls[c].got = "empty" /\ calls[c].setOk = "ok"
  /\ Done(d) /\ calls[d].got = "entry"
  /\ calls[d].args = calls[c].args /\ calls[d].key = calls[c].key

\* C18 (SpecRace): stats emission.  With a stats client configured, a call
\* that misses and a call with the same arguments that then hits send one
\* 'ceych.misses' increment and one 'ceych.hits' increment between them.
C18_MissThenHitCounts ==
  \A c \in Racers : \A d \in Racers \ {c} :
    (engine.sink = "counts" /\ MissThenHit(c, d)) =>
      /\ calls[c].misses + calls[d].misses = 1
      /\ calls[c].hits + calls[d].hits = 1

C18_Witness ==
  /\ engine.sink = "counts" /\ MissThenHit(1, 2) /\ fnCalls = 1
  /\ calls[1].misses = 1 /\ calls[2].hits = 1

\* what call c ends with when the stats client does not throw: the outcome
\* of the computation when the backend was not ready or the lookup missed
\* and the set went through, the item on a hit, the error of the get or of
\* the set when one of them failed
SameOutcome(c) ==
  IF ~calls[c].readyAtCall \/ (calls[c].got = "empty" /\ calls[c].setOk # "error")
    THEN /\ calls[c].fns = 1
         /\ IF calls[c].fnOk = "ok"
              THEN calls[c].kind = "value" /\ calls[c].val = calls[c].fnVal
              ELSE calls[c].kind = "error" /\ calls[c].err = FnError
  ELSE IF calls[c].got = "entry"
    THEN /\ calls[c].kind = "value" /\ calls[c].val = calls[c].gotItem
         /\ calls[c].fns = 0 /\ calls[c].sets = 0
  ELSE IF calls[c].got = "error"
    THEN calls[c].kind = "error" /\ calls[c].err = GetError
  ELSE IF calls[c].got = "none"
    THEN calls[c].kind = "error" /\ calls[c].err = KeyError
  ELSE calls[c].kind = "error" /\ calls[c].err = SetError

\* C19 as stated: when an increment or a timing of the stats client throws
\* during a wrapped call, the call ends as it would with a client that does
\* not throw, after the same get, computation and set.
C19_Original ==
  \A c \in Calls : Done(c) => SameOutcome(c)

\* the call of task c was made with a trailing callback
WithCallback(c) ==
  /\ calls[c].pc # "idle" /\ calls[c].args # <<>>
  /\ calls[c].args[Len(calls[c].args)] = JsFunction

\* C20 as stated: when the last argument of a wrapped call is a callable, it
\* is part neither of the cache key nor of the computation's arguments (and
\* it is the callback that receives the outcome).
C20_Original ==
  \A c \in Calls : WithCallback(c) =>
    /\ calls[c].gets = 1 =>
         calls[c].key = createCacheKey(Wrappable, pop(calls[c].args),
                                       calls[c].opts.suffix)
    /\ calls[c].fns = 1 => calls[c].fnArgs = pop(calls[c].args)

\* C21 (SpecEngine): a constructor given a defaultTTL <= 0 throws 'Default
\* TTL cannot be less than or equal to zero': there is no engine, start was
\* not called, and nothing can be wrapped or called.
C21_NonPositiveDefaultTTL ==
  (/\ engine.given.has /\ engine.given.defaultTTL.t = "number"
   /\ engine.given.defaultTTL.n <= 0) =>
    /\ engine.kind = "error"
    /\ engine.err = "Default TTL cannot be less than or equal to zero"
    /\ engine.start = "none" /\ ~ready
    /\ engine.wrapped = NotWrapped
    /\ \A c \in Calls : calls[c] = IdleCall

C21_Witness ==
  /\ engine.kind = "error" /\ engine.given.defaultTTL = ArgNumber(-5)

\* a step of wrap (a wrap that repeats the one before changes nothing)
WrapStep == engine'.wrapped # engine.wrapped

\* C22 (SpecEngine): wrap without an argument, or with a first argument
\* that is not a function, throws 'Can only wrap a function, ...': no
\* wrapped function results, and the backend, its entries, the calls in
\* flight with the increments they sent, and the stats client are as before.
C22_WrapRejectsNonCallable ==
  [][(WrapStep /\ engine'.wrapped.func.t # "function") =>
       /\ engine'.wrapped.kind = "error"
       /\ engine'.wrapped.err =
            IF Falsy(engine'.wrapped.func)
              THEN "Can only wrap a function, received nothing"
              ELSE "Can only wrap a function, received [func]"
       /\ UNCHANGED <<ready, store, calls, inv, fnCalls>>
       /\ engine'.sink = engine.sink /\ engine'.start = engine.start
       /\ engine'.kind = engine.kind]_vars

C22_Witness ==
  /\ engine.wrapped.kind = "error" /\ engine.wrapped.func = ArgNumber(1)
  /\ fnCalls >= 1 /\ Cardinality(DOMAIN store) >= 1

\* C23: key determinism.  The key a wrapped call derives is the value of
\* one function of the computation's text, the JSON text of the arguments,
\* the suffix and the package version, whatever the state of the engine and
\* of the backend: it is the key invalidate derives from the same function,
\* arguments and suffix, and the key under which an earlier call with the
\* same arguments and suffix stored its entry.
C23_KeyDeterminism ==
  \A c \in Calls : calls[c].gets = 1 =>
    /\ calls[c].key.id =
         hash_create(toString(Wrappable) \o JSONstringify(calls[c].args)
                       \o calls[c].opts.suffix)
    /\ calls[c].key.segment = Segment
    /\ (inv.pc # "idle" /\ inv.args = calls[c].args
         /\ inv.suffix = calls[c].opts.suffix) => inv.key = calls[c].key
    /\ \A k \in DOMAIN store :
         (store[k].args = calls[c].args
          /\ store[k].suffix = calls[c].opts.suffix) => k = calls[c].key

C23_Witness ==
  \E c \in Calls :
    /\ Done(c) /\ calls[c].got = "entry" /\ calls[c].opts.suffix = <<"x">>
    /\ inv.pc = "done" /\ inv.key = calls[c].key /\ fnCalls >= 2

\* suffixes '', 'x', 'y' and 'xy'
SuffixSamples == {<<>>, <<"x">>, <<"y">>, <<"x", "y">>}

\* C24: suffix disambiguation.  For one computation and one argument list,
\* two different suffixes give different key ids; a wrapped call therefore
\* looks up and finds only entries written under its own suffix, and every
\* entry lies under the key of the suffix it was written with.
C24_SuffixDisambiguation ==
  /\ \A a \in ArgLists, x \in SuffixSamples, y \in SuffixSamples :
       x # y => createKey(Wrappable, a, x) # createKey(Wrappable, a, y)
  /\ \A k \in DOMAIN store :
       k = createCacheKey(Wrappable, store[k].args, store[k].suffix)
  /\ \A c \in Calls : (calls[c].gets = 1 /\ HasEntry(calls[c].key)) =>
       store[calls[c].key].suffix = calls[c].opts.suffix

C24_Witness ==
  /\ \E j \in DOMAIN store, k \in DOMAIN store :
       store[j].args = store[k].args /\ store[j].suffix # store[k].suffix
  /\ \E c \in Calls :
       /\ Done(c) /\ calls[c].got = "entry" /\ HasEntry(calls[c].key)
       /\ calls[c].opts.suffix = <<"x">>

\* the call of task c has looked up a key under which there is an entry
Served(c) == calls[c].gets = 1 /\ HasEntry(calls[c].key)

\* C25 as stated: two argument lists that differ in a value or in the order
\* of their values derive different key ids, and a call is never served the
\* entry that a call with another argument list stored.
C25_Original ==
  /\ \A a \in KeyArgs, b \in KeyArgs :
       a # b => createKey(Wrappable, a, NoSuffix) # createKey(Wrappable, b, NoSuffix)
  /\ \A c \in Calls :
       Served(c) => store[calls[c].key].args = calls[c].args

\* values that JSON.stringify writes as themselves: numbers, strings, null
AllJson(args) ==
  \A i \in 1..Len(args) : args[i].t \in {"number", "string", "null"}

\* C25, amended (SpecKeys): two lists of JSON values (numbers, strings,
\* null) that differ in a value, in the order of their values or in their
\* length derive different key ids, and a call with such a list is never
\* served the entry that a call with another such list stored.
C25_ArgumentSensitivity ==
  /\ \A a \in KeyArgs, b \in KeyArgs :
       (a # b /\ AllJson(a) /\ AllJson(b)) =>
         createKey(Wrappable, a, NoSuffix) # createKey(Wrappable, b, NoSuffix)
  /\ \A c \in Calls :
       (/\ Served(c) /\ AllJson(calls[c].args)
        /\ AllJson(store[calls[c].key].args)) =>
         store[calls[c].key].args = calls[c].args

C25_Witness ==
  \E c \in Calls :
    /\ Done(c) /\ calls[c].got = "entry" /\ Served(c)
    /\ calls[c].args = <<JsNum("2"), JsNum("1")>>
    /\ HasEntry(createCacheKey(Wrappable, <<JsNum("1"), JsNum("2")>>, NoSuffix))

C27_Original ==
  LET w == engine.wrapped IN
  (/\ w.kind # "none" /\ w.func = ArgFunction
   /\ w.ttl = SuffixAsTtl /\ w.suffix = ArgUndefined
   /\ engine.defaultTTL.t = "number") =>
    /\ w.kind = "function"
    /\ w.opts.suffix = w.ttl.s
    /\ w.opts.ttl = engine.defaultTTL.n

\* C28 as stated: an engine constructed with options whose defaultTTL is
\* present but undefined has defaultTTL 30, exactly as when defaultTTL is
\* omitted.
C28_Original ==
  engine.given = [has |-> TRUE, defaultTTL |-> ArgUndefined] =>
    /\ engine.kind = "engine"
    /\ engine.defaultTTL = ArgNumber(30)

\* C29 (Spec): the order of one wrapped call.  The get, the computation and
\* the set are each invoked at most once and in that order: while the get is
\* pending neither the computation nor the set has been invoked, and while
\* the computation is pending no set has been issued.  The computation is
\* invoked only after the get reported no entry, or when the backend was not
\* ready, and the set only after the computation succeeded.  Nothing is
\* invoked again after a failure: the call has ended.
C29_ProtocolOrder ==
  \A c \in Calls :
    LET call == calls[c] IN
    /\ call.gets <= 1 /\ call.fns <= 1 /\ call.sets <= 1
    /\ call.pc = "get" => call.gets = 1 /\ call.fns = 0 /\ call.sets = 0
    /\ call.pc = "fn" => call.gets = 1 /\ call.fns = 1 /\ call.sets = 0
    /\ call.pc = "bypass" => call.gets = 0 /\ call.fns = 1 /\ call.sets = 0
    /\ call.pc = "set" => call.gets = 1 /\ call.fns = 1 /\ call.sets = 1
    /\ call.fns = 1 =>
         \/ ~call.readyAtCall /\ call.gets = 0
         \/ call.readyAtCall /\ call.gets = 1 /\ call.got = "empty"
    /\ call.sets = 1 =>
         call.readyAtCall /\ call.fns = 1 /\ call.fnOk = "ok"
    /\ call.got = "error" => Done(c) /\ call.fns = 0 /\ call.sets = 0
    /\ call.got = "entry" => Done(c) /\ call.fns = 0 /\ call.sets = 0
    /\ call.fnOk = "error" => Done(c) /\ call.sets = 0
    /\ call.setOk = "error" => Done(c) /\ call.kind = "error"

\* a call that looked up, computed and stored, and ended when the set failed
C29_Witness ==
  \E c \in Calls :
    /\ Done(c) /\ calls[c].got = "empty" /\ calls[c].fnOk = "ok"
    /\ calls[c].setOk = "error"
    /\ calls[c].gets = 1 /\ calls[c].fns = 1 /\ calls[c].sets = 1

\* C30 as stated: no backend set is ever issued at a moment when the backend
\* reports not ready, also when disableCache stops the backend between the
\* lookup of a call and its store.
C30_Original ==
  [][\A c \in Calls : calls'[c].sets > calls[c].sets => ready]_vars

\* C31 as stated: once an invalidate of key k has completed, an entry is
\* written at k only by a call whose computation started after that
\* invalidate completed; a call that had missed before the invalidate does
\* not write its earlier result back to k.
C31_Original ==
  [][\A c \in Racers :
       (/\ calls[c].pc = "set" /\ calls'[c].setOk = "ok"
        /\ inv.pc = "done" /\ inv.ok /\ calls[c].setKey = inv.key) =>
         c \notin inv.stale]_vars

\* C32 as stated: a wrapped call whose backend get fails, and a wrapped call
\* whose backend set fails, each increment 'ceych.errors' exactly once.
C32_Original ==
  \A c \in Calls :
    (Done(c) /\ (calls[c].got = "error" \/ calls[c].setOk = "error")) =>
      calls[c].errors = 1

\* C33 as stated: a wrapped call whose computation fails after a lookup that
\* succeeded and found nothing does not increment 'ceych.errors'.
C33_Original ==
  \A c \in Calls :
    (/\ Done(c) /\ calls[c].readyAtCall /\ calls[c].got = "empty"
     /\ calls[c].fnOk = "error") =>
      calls[c].errors = 0

\* C34 (Spec): hit/miss accounting.  A wrapped call whose get succeeded has
\* incremented exactly one of 'ceych.hits' and 'ceych.misses', hits when an
\* entry was returned and misses when none was; a call that bypasses the
\* cache, fails to derive its key, or whose get failed or is still pending
\* has incremented neither.  So hits + misses of a call is 1 when its lookup
\* succeeded and 0 otherwise.
C34_HitMissAccounting ==
  \A c \in Calls :
    LET call == calls[c] IN
    /\ call.got = "entry" => call.hits = 1 /\ call.misses = 0
    /\ call.got = "empty" => call.hits = 0 /\ call.misses = 1
    /\ call.got \in {"none", "error"} => call.hits = 0 /\ call.misses = 0
    /\ call.hits + call.misses =
         (IF call.gets = 1 /\ call.got \in {"entry", "empty"} THEN 1 ELSE 0)
    /\ (~call.readyAtCall \/ call.err = KeyError) => call.got = "none"

\* a call that was served an entry and counted one hit
C34_Witness ==
  \E c \in Calls :
    /\ Done(c) /\ calls[c].got = "entry" /\ calls[c].kind = "value"
    /\ calls[c].hits = 1 /\ calls[c].misses = 0 /\ calls[c].errors = 0

\* the key that the call of task c derives from its own arguments
OwnKey(c) == createCacheKey(Wrappable, calls[c].args, calls[c].opts.suffix)

\* C35 (Spec): cache integrity.  Every entry stored under a key k was
\* written for an argument list and suffix that derive k and holds a value
\* the computation returned; a set writes, under the call's own key, the
\* value its computation returned for the call's arguments.  Every value a
\* wrapped call returns is the value its own computation returned or the
\* item that the get found stored at the key derived from its own arguments.
C35_CacheIntegrity ==
  /\ [](/\ \A k \in DOMAIN store :
             /\ createCacheKey(Wrappable, store[k].args, store[k].suffix) = k
             /\ [ok |-> TRUE, v |-> store[k].item, e |-> ""] \in FnOutcomes
        /\ \A c \in Calls :
             (Done(c) /\ calls[c].kind = "value") =>
               \/ /\ calls[c].fns = 1 /\ calls[c].fnOk = "ok"
                  /\ calls[c].fnArgs = calls[c].args
                  /\ calls[c].val = calls[c].fnVal
               \/ /\ calls[c].got = "entry" /\ calls[c].fns = 0
                  /\ calls[c].key = OwnKey(c)
                  /\ calls[c].val = calls[c].gotItem)
  /\ [][\A c \in Calls :
          /\ (calls[c].pc = "get" /\ calls'[c].got = "entry") =>
               /\ HasEntry(OwnKey(c))
               /\ calls'[c].gotItem = store[OwnKey(c)].item
          /\ (calls[c].pc = "set" /\ calls'[c].setOk = "ok") =>
               /\ calls[c].fnOk = "ok" /\ calls[c].fnArgs = calls[c].args
               /\ store'[OwnKey(c)].item = calls[c].fnVal
               /\ store'[OwnKey(c)].args = calls[c].args]_vars

\* a call served the entry that an earlier call computed and stored for the
\* same arguments
C35_Witness ==
  \E c \in Calls :
    /\ Done(c) /\ calls[c].got = "entry" /\ calls[c].kind = "value"
    /\ calls[c].val = JsNum("1") /\ HasEntry(OwnKey(c))
    /\ store[OwnKey(c)].item = calls[c].val
    /\ store[OwnKey(c)].args = calls[c].args /\ fnCalls = 1

\* C36 (Spec): a wrapped call touches only its own key.  The get and the
\* set of a call with arguments A are issued on the key derived from the
\* computation, A and the suffix of the wrapped function, and a step of the
\* call leaves the entries under every other key as they were, whether the
\* call ends with a value or an error.
C36_OwnKeyOnly ==
  /\ [](\A c \in Calls :
          /\ calls[c].gets = 1 => calls[c].key = OwnKey(c)
          /\ calls[c].sets = 1 => calls[c].setKey = OwnKey(c))
  /\ [][\A c \in Calls :
          calls'[c] # calls[c] =>
            \A k \in (DOMAIN store \cup DOMAIN store') \ {OwnKey(c)'} :
              /\ k \in DOMAIN store /\ k \in DOMAIN store'
              /\ store'[k] = store[k]]_vars

\* a call wrote its entry while the entry of another key stayed in place
C36_Witness ==
  \E c \in Calls :
    /\ Done(c) /\ calls[c].setOk = "ok" /\ HasEntry(OwnKey(c))
    /\ store[OwnKey(c)].args = calls[c].args
    /\ \E k \in DOMAIN store : k # OwnKey(c)

\* C37 as stated: every set issued by a wrapped function carries an expiry
\* greater than zero, for every ttl that wrap accepts without throwing: 0,
\* a negative number, or none with an engine whose defaultTTL was given as
\* undefined.
C37_Original ==
  \A c \in Calls : calls[c].sets = 1 => calls[c].setTtl > 0

\* task c is inside a wrapped call that has not answered its caller
Pending(c) == calls[c].pc \notin {"idle", "done"}

\* C38 (SpecLive): every wrapped call completes.  When every get, every set
\* and the computation respond, a call that has been made eventually answers
\* its caller, and what it delivers is one outcome: a value or an error.
C38_EveryCallCompletes ==
  /\ \A c \in Calls : Pending(c) ~> Done(c)
  /\ [](\A c \in Calls :
          /\ Done(c) => calls[c].kind \in {"value", "error"}
          /\ Pending(c) => calls[c].kind = "none")

\* a call that went through get, computation and set and ended with the value
C38_Witness ==
  \E c \in Calls :
    /\ Done(c) /\ calls[c].kind = "value" /\ calls[c].setOk = "ok"
    /\ calls[c].gets = 1 /\ calls[c].fns = 1 /\ calls[c].sets = 1

\* C39 as stated: invalidate issues no backend drop while the backend
\* reports not ready, after disableCache or before the backend has started;
\* it touches the backend only when the backend is ready.
C39_Original ==
  [][(inv.pc # "drop" /\ inv'.pc = "drop") => ready]_vars

\* C40 (Spec): timing samples follow the operations.  A wrapped call has
\* sent exactly one 'ceych.read_time' sample when its get succeeded and none
\* when the get failed, is pending or was never issued; it has sent exactly
\* one 'ceych.write_time' sample when its set succeeded and none when the set
\* failed, is pending or was never issued, so a hit sends no write_time.
C40_TimingSamples ==
  \A c \in Calls :
    LET call == calls[c] IN
    /\ call.readT = (IF call.got \in {"entry", "empty"} THEN 1 ELSE 0)
    /\ call.writeT = (IF call.setOk = "ok" THEN 1 ELSE 0)
    /\ call.got = "entry" => call.writeT = 0 /\ call.sets = 0
    /\ call.got = "error" => call.gets = 1 /\ call.readT = 0
    /\ call.setOk = "error" => call.sets = 1 /\ call.writeT = 0

\* a call whose get missed and whose set succeeded: one sample of each
C40_Witness ==
  \E c \in Calls :
    /\ Done(c) /\ calls[c].got = "empty" /\ calls[c].setOk = "ok"
    /\ calls[c].readT = 1 /\ calls[c].writeT = 1
    /\ engine.sink = "counts"

====
